---- MODULE Spec2Model ----
(***************************************************************************)
(* Catalyst Physics Definitions (tools/game_engine_physics.py).            *)
(*                                                                         *)
(* Every scene object owns a CatalystPhysicsSettings record (the ten       *)
(* cat_phys_* fields) and a custom-property dictionary.  Assigning any     *)
(* field runs update_physics_props(self, context), which mirrors the       *)
(* record `self` into the custom properties of context.object with a       *)
(* sequence of ten sync_prop calls.                                        *)
(*                                                                         *)
(* Floats are fixed point, in thousandths (1.0 is 1000, 0.001 is 1).       *)
(***************************************************************************)
EXTENDS Integers, FiniteSets, Sequences, TLC

VARIABLES active, rec, bag, edits, last

vars == <<active, rec, bag, edits, last>>

\* ------------------------------------------------------------------ bounds
MaxEdits == 2

\* ------------------------------------------------------------ the objects
Nodes == {"A", "B"}
NoObj == "None"

\* ------------------------------------------------ property declarations
BodyItems == {"NONE", "static", "dynamic", "kinematic"}
ShapeItems == {"NONE", "box", "sphere", "capsule", "convex", "mesh"}

MassMin == 1
LinearDampingMin == 0
AngularDampingMin == 0
LayerMin == 0
MaskMin == 0

DefaultRecord ==
    [cat_phys_body |-> "NONE",
     cat_phys_shape |-> "NONE",
     cat_phys_mass |-> 1000,
     cat_phys_gravity_scale |-> 1000,
     cat_phys_linear_damping |-> 0,
     cat_phys_angular_damping |-> 0,
     cat_phys_is_trigger |-> FALSE,
     cat_phys_layer |-> 1,
     cat_phys_mask |-> 1,
     cat_phys_material |-> ""]

\* A property declared with min= stores an assigned value below it as min.
ClampMin(v, min) == IF v < min THEN min ELSE v

\* Values the user types into the fields.
MassInputs == {0, 1000, 2500}
GravityInputs == {-1000, 1000}
DampingInputs == {-100, 0, 100}
LayerInputs == {-1, 1}
MaterialInputs == {"", "wood"}

\* ------------------------------------------------- custom-property dict
EmptyBag == [k \in {} |-> 0]
Has(b, k) == k \in DOMAIN b
Put(b, k, v) == [x \in (DOMAIN b) \cup {k} |-> IF x = k THEN v ELSE b[x]]
Del(b, k) == [x \in (DOMAIN b) \ {k} |-> b[x]]

PhysKeys ==
    {"physics_body", "physics_shape", "physics_mass", "physics_gravity_scale",
     "physics_linear_damping", "physics_angular_damping", "physics_is_trigger",
     "physics_layer", "physics_mask", "physics_material"}

\* ------------------------------------------------- update_physics_props
\* obj is the active object's dictionary together with the exception state
\* of the running callback: once an exception is raised the remaining
\* statements of the callback do not run.
\* Variant: a key whose condition is false is left in place.
sync_prop_keep(obj, prop_name, value, condition) ==
    IF obj.raised THEN obj
    ELSE IF condition
         THEN [obj EXCEPT !.props = Put(obj.props, prop_name, value)]
         ELSE obj

\* Variant: del without the membership test raises KeyError on an absent key.
sync_prop_del_unchecked(obj, prop_name, value, condition) ==
    IF obj.raised THEN obj
    ELSE IF condition
         THEN [obj EXCEPT !.props = Put(obj.props, prop_name, value)]
         ELSE IF Has(obj.props, prop_name)
              THEN [obj EXCEPT !.props = Del(obj.props, prop_name)]
              ELSE [obj EXCEPT !.raised = TRUE]

sync_prop(obj, prop_name, value, condition) ==
    IF obj.raised THEN obj
    ELSE IF condition
         THEN [obj EXCEPT !.props = Put(obj.props, prop_name, value)]
         ELSE IF Has(obj.props, prop_name)
              THEN [obj EXCEPT !.props = Del(obj.props, prop_name)]
              ELSE obj

\* Variant: any body counts as dynamic.
is_dynamic_any_body(self) == self.cat_phys_body # "NONE"

is_dynamic(self) == self.cat_phys_body = "dynamic"

\* Variant: `body != 'NONE' or shape`, a non-empty string being true.
has_physics_truthy(self) ==
    self.cat_phys_body # "NONE" \/ Len(self.cat_phys_shape) > 0

has_physics(self) == self.cat_phys_body # "NONE" \/ self.cat_phys_shape # "NONE"

\* Variant: the material is written whenever the object has physics.
update_physics_props_any_material(self, context) ==
    IF context.object = NoObj
    THEN [self |-> self, objects |-> context.objects, raised |-> FALSE]
    ELSE
    LET o0 == [props |-> context.objects[context.object], raised |-> FALSE]
        o1 == sync_prop(o0, "physics_body", self.cat_phys_body,
                        self.cat_phys_body # "NONE")
        o2 == sync_prop(o1, "physics_shape", self.cat_phys_shape,
                        self.cat_phys_shape # "NONE")
        o3 == sync_prop(o2, "physics_mass", self.cat_phys_mass, is_dynamic(self))
        o4 == sync_prop(o3, "physics_gravity_scale",
                        self.cat_phys_gravity_scale, is_dynamic(self))
        o5 == sync_prop(o4, "physics_linear_damping",
                        self.cat_phys_linear_damping, is_dynamic(self))
        o6 == sync_prop(o5, "physics_angular_damping",
                        self.cat_phys_angular_damping, is_dynamic(self))
        o7 == sync_prop(o6, "physics_is_trigger", self.cat_phys_is_trigger,
                        has_physics(self))
        o8 == sync_prop(o7, "physics_layer", self.cat_phys_layer,
                        has_physics(self))
        o9 == sync_prop(o8, "physics_mask", self.cat_phys_mask,
                        has_physics(self))
        o10 == sync_prop(o9, "physics_material", self.cat_phys_material,
                         has_physics(self))
    IN [self |-> self,
        objects |-> [context.objects EXCEPT ![context.object] = o10.props],
        raised |-> o10.raised]

\* Variant: without the early return, indexing None raises TypeError.
update_physics_props_no_guard(self, context) ==
    IF context.object = NoObj
    THEN [self |-> self, objects |-> context.objects, raised |-> TRUE]
    ELSE
    LET o0 == [props |-> context.objects[context.object], raised |-> FALSE]
        o1 == sync_prop(o0, "physics_body", self.cat_phys_body,
                        self.cat_phys_body # "NONE")
        o2 == sync_prop(o1, "physics_shape", self.cat_phys_shape,
                        self.cat_phys_shape # "NONE")
        o3 == sync_prop(o2, "physics_mass", self.cat_phys_mass, is_dynamic(self))
        o4 == sync_prop(o3, "physics_gravity_scale",
                        self.cat_phys_gravity_scale, is_dynamic(self))
        o5 == sync_prop(o4, "physics_linear_damping",
                        self.cat_phys_linear_damping, is_dynamic(self))
        o6 == sync_prop(o5, "physics_angular_damping",
                        self.cat_phys_angular_damping, is_dynamic(self))
        o7 == sync_prop(o6, "physics_is_trigger", self.cat_phys_is_trigger,
                        has_physics(self))
        o8 == sync_prop(o7, "physics_layer", self.cat_phys_layer,
                        has_physics(self))
        o9 == sync_prop(o8, "physics_mask", self.cat_phys_mask,
                        has_physics(self))
        o10 == sync_prop(o9, "physics_material", self.cat_phys_material,
                         has_physics(self) /\ Len(self.cat_phys_material) > 0)
    IN [self |-> self,
        objects |-> [context.objects EXCEPT ![context.object] = o10.props],
        raised |-> o10.raised]

\* context = [object |-> the active object or NoObj, objects |-> dictionaries]
\* The result holds the record, all dictionaries and the exception state
\* after the callback.
update_physics_props(self, context) ==
    IF context.object = NoObj
    THEN [self |-> self, objects |-> context.objects, raised |-> FALSE]
    ELSE
    LET o0 == [props |-> context.objects[context.object], raised |-> FALSE]
        o1 == sync_prop(o0, "physics_body", self.cat_phys_body,
                        self.cat_phys_body # "NONE")
        o2 == sync_prop(o1, "physics_shape", self.cat_phys_shape,
                        self.cat_phys_shape # "NONE")
        o3 == sync_prop(o2, "physics_mass", self.cat_phys_mass, is_dynamic(self))
        o4 == sync_prop(o3, "physics_gravity_scale",
                        self.cat_phys_gravity_scale, is_dynamic(self))
        o5 == sync_prop(o4, "physics_linear_damping",
                        self.cat_phys_linear_damping, is_dynamic(self))
        o6 == sync_prop(o5, "physics_angular_damping",
                        self.cat_phys_angular_damping, is_dynamic(self))
        o7 == sync_prop(o6, "physics_is_trigger", self.cat_phys_is_trigger,
                        has_physics(self))
        o8 == sync_prop(o7, "physics_layer", self.cat_phys_layer,
                        has_physics(self))
        o9 == sync_prop(o8, "physics_mask", self.cat_phys_mask,
                        has_physics(self))
        o10 == sync_prop(o9, "physics_material", self.cat_phys_material,
                         has_physics(self) /\ Len(self.cat_phys_material) > 0)
    IN [self |-> self,
        objects |-> [context.objects EXCEPT ![context.object] = o10.props],
        raised |-> o10.raised]

\* ------------------------------------------------------------- the state
\* active : context.object (NoObj when nothing is active)
\* rec    : each object's CatalystPhysicsSettings
\* bag    : each object's custom properties
\* edits  : number of field assignments so far
\* last   : the most recent callback run: the object whose record was
\*          assigned (self), context.object (obj), the dictionary of obj
\*          before the run (before), the record as assigned (set), and
\*          whether the run raised
NoCall ==
    [self |-> NoObj, obj |-> NoObj, before |-> EmptyBag,
     set |-> DefaultRecord, raised |-> FALSE]

InitBags == [n \in Nodes |-> IF n = "A" THEN Put(EmptyBag, "my_prop", 7) ELSE EmptyBag]

Init ==
    /\ active \in Nodes \cup {NoObj}
    /\ rec = [n \in Nodes |-> DefaultRecord]
    /\ bag = InitBags
    /\ edits = 0
    /\ last = NoCall

\* Assigning `value` (already clamped) to field `field` of object n's record
\* stores it and runs the update callback with the current context.
Assign(n, field, value) ==
    /\ edits < MaxEdits
    /\ LET set == [rec[n] EXCEPT ![field] = value]
           res == update_physics_props(set, [object |-> active, objects |-> bag])
       IN /\ rec' = [rec EXCEPT ![n] = res.self]
          /\ bag' = res.objects
          /\ last' = [self |-> n, obj |-> active,
                      before |-> IF active = NoObj THEN EmptyBag ELSE bag[active],
                      set |-> set, raised |-> res.raised]
    /\ edits' = edits + 1
    /\ UNCHANGED active

SetBody(n, v) == Assign(n, "cat_phys_body", v)
SetShape(n, v) == Assign(n, "cat_phys_shape", v)
SetMass(n, v) == Assign(n, "cat_phys_mass", ClampMin(v, MassMin))
SetGravityScale(n, v) == Assign(n, "cat_phys_gravity_scale", v)
SetLinearDamping(n, v) == Assign(n, "cat_phys_linear_damping", ClampMin(v, LinearDampingMin))
SetAngularDamping(n, v) == Assign(n, "cat_phys_angular_damping", ClampMin(v, AngularDampingMin))
SetIsTrigger(n, v) == Assign(n, "cat_phys_is_trigger", v)
SetLayer(n, v) == Assign(n, "cat_phys_layer", ClampMin(v, LayerMin))
SetMask(n, v) == Assign(n, "cat_phys_mask", ClampMin(v, MaskMin))
SetMaterial(n, v) == Assign(n, "cat_phys_material", v)

\* The user makes another object (or none) the active one.
SetActive(o) ==
    /\ o # active
    /\ active' = o
    /\ UNCHANGED <<rec, bag, edits, last>>

Next ==
    \/ \E n \in Nodes, v \in BodyItems : SetBody(n, v)
    \/ \E n \in Nodes, v \in ShapeItems : SetShape(n, v)
    \/ \E n \in Nodes, v \in MassInputs : SetMass(n, v)
    \/ \E n \in Nodes, v \in GravityInputs : SetGravityScale(n, v)
    \/ \E n \in Nodes, v \in DampingInputs : SetLinearDamping(n, v)
    \/ \E n \in Nodes, v \in DampingInputs : SetAngularDamping(n, v)
    \/ \E n \in Nodes, v \in BOOLEAN : SetIsTrigger(n, v)
    \/ \E n \in Nodes, v \in LayerInputs : SetLayer(n, v)
    \/ \E n \in Nodes, v \in LayerInputs : SetMask(n, v)
    \/ \E n \in Nodes, v \in MaterialInputs : SetMaterial(n, v)
    \/ \E o \in Nodes \cup {NoObj} : SetActive(o)

Spec == Init /\ [][Next]_vars

\* A scene that was saved and reopened, or imported: object A's record and
\* dictionary are as an earlier session left them (SavedRecord with the
\* dictionary the callback wrote for it), object B's dictionary carries
\* physics_* keys that did not come from its record (ForeignBag).
SavedRecord ==
    [cat_phys_body |-> "dynamic",
     cat_phys_shape |-> "box",
     cat_phys_mass |-> 2500,
     cat_phys_gravity_scale |-> -1000,
     cat_phys_linear_damping |-> 100,
     cat_phys_angular_damping |-> 100,
     cat_phys_is_trigger |-> TRUE,
     cat_phys_layer |-> 0,
     cat_phys_mask |-> 1,
     cat_phys_material |-> "wood"]

SavedBag ==
    update_physics_props(SavedRecord,
        [object |-> "A", objects |-> InitBags]).objects["A"]

ForeignBag ==
    Put(Put(Put(Put(Put(EmptyBag, "physics_body", "NONE"), "physics_mass", 99000),
        "physics_material", ""), "physics_layer", 5), "other_prop", 3)

InitPrior ==
    /\ active \in Nodes \cup {NoObj}
    /\ rec = [n \in Nodes |-> IF n = "A" THEN SavedRecord ELSE DefaultRecord]
    /\ bag = [n \in Nodes |-> IF n = "A" THEN SavedBag ELSE ForeignBag]
    /\ edits = 0
    /\ last = NoCall

SpecPrior == InitPrior /\ [][Next]_vars

\* ------------------------------------------------------------- decode
\* The engine-side reader of the dictionary: an absent key yields the
\* field's default, an enum string outside the closed set is an error.
BodyFromString(str) ==
    CASE str = "static" -> "Static"
      [] str = "dynamic" -> "Dynamic"
      [] str = "kinematic" -> "Kinematic"
      [] OTHER -> "UnknownEnumValue"

ShapeFromString(str) ==
    CASE str = "box" -> "Box"
      [] str = "sphere" -> "Sphere"
      [] str = "capsule" -> "Capsule"
      [] str = "convex" -> "Convex"
      [] str = "mesh" -> "Mesh"
      [] OTHER -> "UnknownEnumValue"

Get(b, k, default) == IF Has(b, k) THEN b[k] ELSE default

decode(b) ==
    LET body == IF Has(b, "physics_body")
                THEN BodyFromString(b["physics_body"]) ELSE "None"
        shape == IF Has(b, "physics_shape")
                 THEN ShapeFromString(b["physics_shape"]) ELSE "None"
    IN [error |-> IF body = "UnknownEnumValue" THEN "physics_body"
                  ELSE IF shape = "UnknownEnumValue" THEN "physics_shape"
                  ELSE "",
        body |-> body,
        shape |-> shape,
        mass |-> Get(b, "physics_mass", 1000),
        gravity_scale |-> Get(b, "physics_gravity_scale", 1000),
        linear_damping |-> Get(b, "physics_linear_damping", 0),
        angular_damping |-> Get(b, "physics_angular_damping", 0),
        is_trigger |-> Get(b, "physics_is_trigger", FALSE),
        layer |-> Get(b, "physics_layer", 1),
        mask |-> Get(b, "physics_mask", 1),
        material |-> Get(b, "physics_material", "")]

\* ------------------------------------------------------------ properties
\* The record field each dictionary key mirrors.
FieldOf ==
    [k \in PhysKeys |->
        CASE k = "physics_body" -> "cat_phys_body"
          [] k = "physics_shape" -> "cat_phys_shape"
          [] k = "physics_mass" -> "cat_phys_mass"
          [] k = "physics_gravity_scale" -> "cat_phys_gravity_scale"
          [] k = "physics_linear_damping" -> "cat_phys_linear_damping"
          [] k = "physics_angular_damping" -> "cat_phys_angular_damping"
          [] k = "physics_is_trigger" -> "cat_phys_is_trigger"
          [] k = "physics_layer" -> "cat_phys_layer"
          [] k = "physics_mask" -> "cat_phys_mask"
          [] k = "physics_material" -> "cat_phys_material"]

DynamicKeys ==
    {"physics_mass", "physics_gravity_scale", "physics_linear_damping",
     "physics_angular_damping"}

CollisionKeys == {"physics_is_trigger", "physics_layer", "physics_mask"}

\* The condition under which key k is meaningful for record r.
Meaningful(k, r) ==
    CASE k = "physics_body" -> r.cat_phys_body # "NONE"
      [] k = "physics_shape" -> r.cat_phys_shape # "NONE"
      [] k \in DynamicKeys -> r.cat_phys_body = "dynamic"
      [] k \in CollisionKeys ->
            ~(r.cat_phys_body = "NONE" /\ r.cat_phys_shape = "NONE")
      [] k = "physics_material" ->
            /\ ~(r.cat_phys_body = "NONE" /\ r.cat_phys_shape = "NONE")
            /\ r.cat_phys_material # ""

\* The callback ran with an active object.
Ran == last.self # NoObj /\ last.obj # NoObj

\* C1: after update_physics_props has run with an active object, the
\* physics_* keys of that object's dictionary are exactly the keys that are
\* meaningful for the record, each holding the record's field value,
\* whatever the dictionary held before.
C1_BagIsEncoding ==
    Ran =>
        \A k \in PhysKeys :
            /\ Has(bag[last.obj], k) <=> Meaningful(k, rec[last.self])
            /\ Has(bag[last.obj], k) =>
                  bag[last.obj][k] = rec[last.self][FieldOf[k]]

\* A foreign or stale dictionary was overwritten: a key it held is gone, a
\* value it held is replaced, and a key it lacked was written.
C1_Witness ==
    /\ Ran
    /\ Has(last.before, "physics_mass") /\ ~Has(bag[last.obj], "physics_mass")
    /\ Has(last.before, "physics_body") /\ Has(bag[last.obj], "physics_body")
    /\ last.before["physics_body"] # bag[last.obj]["physics_body"]
    /\ ~Has(last.before, "physics_shape") /\ Has(bag[last.obj], "physics_shape")

\* C2: after a field edit on a node's record, that node's dictionary is
\* the encoding of that node's record.
C2_EditedNodeUpToDate ==
    last.self # NoObj =>
        \A k \in PhysKeys :
            /\ Has(bag[last.self], k) <=> Meaningful(k, rec[last.self])
            /\ Has(bag[last.self], k) =>
                  bag[last.self][k] = rec[last.self][FieldOf[k]]

\* C3: an edit of one node's record leaves every other node's dictionary
\* unchanged.
C3_OtherBagsUntouched ==
    [][edits' # edits =>
          \A b \in Nodes \ {last'.self} : bag'[b] = bag[b]]_vars

\* C4: decoding the dictionary written for a record gives the record's value
\* on every meaningful field and the default on every other field.
C4_RoundTrip ==
    Ran =>
        LET r == rec[last.self]
            d == decode(bag[last.obj])
            dyn == r.cat_phys_body = "dynamic"
            phys == r.cat_phys_body # "NONE" \/ r.cat_phys_shape # "NONE"
        IN /\ d.error = ""
           /\ d.body = IF r.cat_phys_body # "NONE"
                       THEN BodyFromString(r.cat_phys_body) ELSE "None"
           /\ d.shape = IF r.cat_phys_shape # "NONE"
                        THEN ShapeFromString(r.cat_phys_shape) ELSE "None"
           /\ d.mass = IF dyn THEN r.cat_phys_mass ELSE 1000
           /\ d.gravity_scale = IF dyn THEN r.cat_phys_gravity_scale ELSE 1000
           /\ d.linear_damping = IF dyn THEN r.cat_phys_linear_damping ELSE 0
           /\ d.angular_damping = IF dyn THEN r.cat_phys_angular_damping ELSE 0
           /\ d.is_trigger = IF phys THEN r.cat_phys_is_trigger ELSE FALSE
           /\ d.layer = IF phys THEN r.cat_phys_layer ELSE 1
           /\ d.mask = IF phys THEN r.cat_phys_mask ELSE 1
           /\ d.material = IF phys THEN r.cat_phys_material ELSE ""

\* A record with non-default values in fields that are not meaningful was
\* encoded and decodes to the defaults there.
C4_Witness ==
    /\ Ran
    /\ rec[last.self].cat_phys_body = "static"
    /\ rec[last.self].cat_phys_mass # 1000
    /\ rec[last.self].cat_phys_material = "wood"
    /\ decode(bag[last.obj]).body = "Static"
    /\ decode(bag[last.obj]).mass = 1000
    /\ decode(bag[last.obj]).material = "wood"

\* C5: starting from dictionaries without physics_* keys, every dictionary
\* is sparse: (a) a dynamics key only with physics_body = "dynamic", (b) a
\* collision key or the material only with physics_body or physics_shape,
\* (c) physics_body and physics_shape never "NONE", (d) physics_material
\* never empty.
C5_Sparse ==
    \A n \in Nodes :
        /\ (\E k \in DynamicKeys : Has(bag[n], k)) =>
              (Has(bag[n], "physics_body") /\ bag[n]["physics_body"] = "dynamic")
        /\ (\E k \in CollisionKeys \cup {"physics_material"} : Has(bag[n], k)) =>
              (Has(bag[n], "physics_body") \/ Has(bag[n], "physics_shape"))
        /\ Has(bag[n], "physics_body") => bag[n]["physics_body"] # "NONE"
        /\ Has(bag[n], "physics_shape") => bag[n]["physics_shape"] # "NONE"
        /\ Has(bag[n], "physics_material") => bag[n]["physics_material"] # ""

\* A dictionary that held the dynamics keys lost them when the body stopped
\* being dynamic and kept the collision keys.
C5_Witness ==
    /\ Ran
    /\ Has(last.before, "physics_mass")
    /\ ~Has(bag[last.obj], "physics_mass")
    /\ Has(bag[last.obj], "physics_layer")

\* C6: when the record has body NONE and shape NONE, the dictionary after
\* the update holds none of the ten physics_* keys, whatever the other
\* fields and the earlier dictionary hold.
C6_NoneNoneIsEmpty ==
    (/\ Ran
     /\ rec[last.self].cat_phys_body = "NONE"
     /\ rec[last.self].cat_phys_shape = "NONE")
        => (DOMAIN bag[last.obj]) \cap PhysKeys = {}

\* A dictionary populated by a dynamic body with a material was emptied by a
\* NONE/NONE record that still holds a material and a non-default mass.
C6_Witness ==
    /\ Ran
    /\ rec[last.self].cat_phys_body = "NONE"
    /\ rec[last.self].cat_phys_shape = "NONE"
    /\ rec[last.self].cat_phys_material = "wood"
    /\ rec[last.self].cat_phys_mass = 2500
    /\ Has(last.before, "physics_body")
    /\ last.before["physics_body"] = "dynamic"
    /\ Has(last.before, "physics_material")
    /\ (DOMAIN bag[last.obj]) \cap PhysKeys = {}

\* C7: when the record's body is static or kinematic, the dictionary after
\* the update holds no dynamics key, holds physics_body with the body's
\* string, physics_is_trigger, physics_layer and physics_mask, and holds
\* physics_shape exactly when the shape is not NONE.
C7_NonDynamic ==
    (Ran /\ rec[last.self].cat_phys_body \in {"static", "kinematic"}) =>
        /\ (DOMAIN bag[last.obj]) \cap DynamicKeys = {}
        /\ Has(bag[last.obj], "physics_body")
        /\ bag[last.obj]["physics_body"] = rec[last.self].cat_phys_body
        /\ CollisionKeys \subseteq DOMAIN bag[last.obj]
        /\ Has(bag[last.obj], "physics_shape")
              <=> rec[last.self].cat_phys_shape # "NONE"

\* A kinematic body replaced a dynamic one: the dynamics keys the earlier
\* state wrote are gone although the record still holds a mass of 2.5.
C7_Witness ==
    /\ Ran
    /\ rec[last.self].cat_phys_body = "kinematic"
    /\ rec[last.self].cat_phys_mass = 2500
    /\ DynamicKeys \subseteq DOMAIN last.before
    /\ (DOMAIN bag[last.obj]) \cap DynamicKeys = {}
    /\ Has(bag[last.obj], "physics_shape")

\* C8: when the record has a body or a shape, the dictionary after the
\* update holds physics_material exactly when the material is non-empty,
\* with that string.
C8_Material ==
    (Ran /\ (rec[last.self].cat_phys_body # "NONE"
             \/ rec[last.self].cat_phys_shape # "NONE")) =>
        /\ Has(bag[last.obj], "physics_material")
              <=> rec[last.self].cat_phys_material # ""
        /\ Has(bag[last.obj], "physics_material") =>
              bag[last.obj]["physics_material"] = rec[last.self].cat_phys_material

\* The material was set back to the empty string and the key an earlier
\* update had written is removed.
C8_Witness ==
    /\ Ran
    /\ rec[last.self].cat_phys_body # "NONE"
    /\ rec[last.self].cat_phys_material = ""
    /\ Has(last.before, "physics_material")
    /\ last.before["physics_material"] = "wood"
    /\ ~Has(bag[last.obj], "physics_material")

\* C9: with no active object the callback returns without effect: no
\* dictionary changes and the record stays as the user set it.
C9_NoActiveNoEffect ==
    [][(edits' # edits /\ active = NoObj) =>
          /\ bag' = bag
          /\ ~last'.raised
          /\ rec'[last'.self] = last'.set
          /\ \A n \in Nodes \ {last'.self} : rec'[n] = rec[n]]_vars

\* A record was edited with no active object and now differs from its
\* node's dictionary.
C9_Witness ==
    /\ last.self # NoObj
    /\ last.obj = NoObj
    /\ rec[last.self].cat_phys_body = "dynamic"
    /\ ~Has(bag[last.self], "physics_body")

\* C10: the update writes or deletes only the ten physics_* keys: every
\* other key of the dictionary keeps its value and none is created, the
\* record is left as assigned, and deleting an absent key does not fail.
C10_Frame ==
    Ran =>
        /\ (DOMAIN bag[last.obj]) \ PhysKeys = (DOMAIN last.before) \ PhysKeys
        /\ \A k \in (DOMAIN last.before) \ PhysKeys :
              bag[last.obj][k] = last.before[k]
        /\ rec[last.self] = last.set
        /\ ~last.raised

\* An update deleted a key that was present, skipped one that was already
\* absent, wrote others, and kept the custom property.
C10_Witness ==
    /\ Ran
    /\ Has(last.before, "other_prop")
    /\ Has(bag[last.obj], "other_prop")
    /\ bag[last.obj]["other_prop"] = 3
    /\ Has(last.before, "physics_mass") /\ ~Has(bag[last.obj], "physics_mass")
    /\ ~Has(last.before, "physics_shape") /\ ~Has(bag[last.obj], "physics_shape")
    /\ Has(bag[last.obj], "physics_layer")

TypeOK ==
    /\ active \in Nodes \cup {NoObj}
    /\ edits \in 0..MaxEdits
    /\ \A n \in Nodes : rec[n].cat_phys_body \in BodyItems
====
